---- MODULE Spec2Model ----
(***************************************************************************)
(* Model of visdat-final-project.py: a script that joins a country table   *)
(* with country metadata, filters it by the sidebar selections and derives *)
(* the ranking tables, the income-group distribution and the two-country   *)
(* comparison.  The script runs top to bottom and is run again on every    *)
(* widget interaction.                                                     *)
(*                                                                         *)
(* A data frame is a sequence of rows (records); the field idx of a row of *)
(* the merged table is its index label, which boolean indexing, nlargest   *)
(* and nsmallest carry along.                                              *)
(***************************************************************************)
EXTENDS Integers, Sequences, FiniteSets, TLC

VARIABLES api_ny, metadata, merged_df, selected_income_group, selected_region,
          selected_year, filtered_df_sidebar, top_5_sel, bottom_5_sel,
          top_5_countries, bottom_5_countries, income_group_distribution,
          country_1, country_2, series_1, series_2, comparison_df, outcome, pc

vars == <<api_ny, metadata, merged_df, selected_income_group, selected_region,
          selected_year, filtered_df_sidebar, top_5_sel, bottom_5_sel,
          top_5_countries, bottom_5_countries, income_group_distribution,
          country_1, country_2, series_1, series_2, comparison_df, outcome, pc>>

----------------------------------------------------------------------------
(* Values *)

\* A missing text value (a NaN in an object column).
NA == "NaN"
\* A missing number (a NaN in a numeric column, an empty csv cell).
NaN == -1
\* A csv cell whose text is not a number.
Junk == -2
\* The "no filter" entry of the two sidebar dropdowns.
All == "All"
\* What a selectbox returns when it has no option to offer.
None == "None"

FirstYear == 1960
LastYear == 2023
Years == FirstYear..LastYear
\* year_columns: the labels of the year columns, in order.
year_columns == [i \in 1..(LastYear - FirstYear + 1) |-> FirstYear + i - 1]
\* The number of rows nlargest and nsmallest are asked for.
TopN == 5

----------------------------------------------------------------------------
(* Bounds of the inputs *)

MaxRows == 2
MaxMeta == 2
MaxSliderStops == 2
MaxRankRows == 11

\* Every text value of the model in ascending (lexicographic) order.
AlphaOrder == <<"A", "B", "East", "High", "Low", "South", "X", "Y">>

Names == {"A", "B"}

\* The years the slider is moved to: the first one and the last ones.
SliderYears == {y \in Years : y = FirstYear \/ LastYear - y < MaxSliderStops - 1}

\* A row's year values: a in the first half of the years, b in the second.
HalfSeries(a, b) == [y \in Years |-> IF 2 * y < FirstYear + LastYear THEN a ELSE b]

\* All sequences over S of length lo..hi.
Tables(S, lo, hi) == UNION {[1..n -> S] : n \in lo..hi}

----------------------------------------------------------------------------
(* Sequence helpers *)

Range(s) == {s[i] : i \in DOMAIN s}

Take(s, n) == SubSeq(s, 1, IF n < Len(s) THEN n ELSE Len(s))

RECURSIVE Flatten(_)
Flatten(ss) == IF ss = <<>> THEN <<>> ELSE Head(ss) \o Flatten(Tail(ss))

\* Equality of two values as pandas evaluates ==: a missing value equals nothing.
Eq(a, b) == a # NA /\ b # NA /\ a = b

----------------------------------------------------------------------------
(* 4.1 Join and normalize (lines 21-33) *)

\* metadata[['Country Code', 'IncomeGroup', 'Region']]: the three columns kept.
ProjectMetadata(meta) ==
    [i \in DOMAIN meta |-> [CountryCode |-> meta[i].CountryCode,
                            IncomeGroup |-> meta[i].IncomeGroup,
                            Region |-> meta[i].Region]]

\* JoinRow with the two metadata columns exchanged.
JoinRowSwapped(l, right) ==
    LET hits == SelectSeq(right, LAMBDA m : m.CountryCode = l.CountryCode)
    IN IF hits = <<>>
       THEN << [CountryName |-> l.CountryName, CountryCode |-> l.CountryCode,
                years |-> l.years, IncomeGroup |-> NA, Region |-> NA] >>
       ELSE [k \in DOMAIN hits |->
                [CountryName |-> l.CountryName, CountryCode |-> l.CountryCode,
                 years |-> l.years, IncomeGroup |-> hits[k].Region,
                 Region |-> hits[k].IncomeGroup]]

\* JoinRow as an inner join (how='inner') would make it.
JoinRowInner(l, right) ==
    LET hits == SelectSeq(right, LAMBDA m : m.CountryCode = l.CountryCode)
    IN [k \in DOMAIN hits |->
          [CountryName |-> l.CountryName, CountryCode |-> l.CountryCode,
           years |-> l.years, IncomeGroup |-> hits[k].IncomeGroup,
           Region |-> hits[k].Region]]

\* The rows a left join makes of one left row: one per right row with the same
\* country code, in the right table's order, or a single row with missing
\* IncomeGroup and Region when there is none.
JoinRow(l, right) ==
    LET hits == SelectSeq(right, LAMBDA m : m.CountryCode = l.CountryCode)
    IN IF hits = <<>>
       THEN << [CountryName |-> l.CountryName, CountryCode |-> l.CountryCode,
                years |-> l.years, IncomeGroup |-> NA, Region |-> NA] >>
       ELSE [k \in DOMAIN hits |->
                [CountryName |-> l.CountryName, CountryCode |-> l.CountryCode,
                 years |-> l.years, IncomeGroup |-> hits[k].IncomeGroup,
                 Region |-> hits[k].Region]]

\* The merged table gets a fresh index 1..n (pandas numbers it from 0).
WithIndex(rows) ==
    [i \in DOMAIN rows |->
        [idx |-> i, CountryName |-> rows[i].CountryName,
         CountryCode |-> rows[i].CountryCode, years |-> rows[i].years,
         IncomeGroup |-> rows[i].IncomeGroup, Region |-> rows[i].Region]]

\* pd.merge(api_ny, metadata, on 'Country Code', how='left').
MergeLeft(left, right) ==
    WithIndex(Flatten([i \in DOMAIN left |-> JoinRow(left[i], right)]))

\* pd.to_numeric(cell, errors='coerce'): text that is no number becomes NaN.
ToNumeric(c) == IF c = Junk THEN NaN ELSE c

\* The loop over year_columns: every year column is coerced.
CoerceYears(df) ==
    [i \in DOMAIN df |->
        [df[i] EXCEPT !.years = [y \in Years |-> ToNumeric(df[i].years[y])]]]

----------------------------------------------------------------------------
(* 4.2 Sidebar (lines 42-59) *)

\* sorted(column.dropna().unique().tolist())
SortedUnique(vals) == SelectSeq(AlphaOrder, LAMBDA s : s # NA /\ s \in vals)

income_groups(df) == <<All>> \o SortedUnique({df[i].IncomeGroup : i \in DOMAIN df})

regions(df) == <<All>> \o SortedUnique({df[i].Region : i \in DOMAIN df})

FilterIncomeGroup(df, g) ==
    IF g # All THEN SelectSeq(df, LAMBDA r : Eq(r.IncomeGroup, g)) ELSE df

\* FilterRegion without the test for "All".
FilterRegionNoSentinel(df, rg) == SelectSeq(df, LAMBDA r : Eq(r.Region, rg))

FilterRegion(df, rg) ==
    IF rg # All THEN SelectSeq(df, LAMBDA r : Eq(r.Region, rg)) ELSE df

\* SidebarFilter with the second filter taken from the unfiltered table.
SidebarFilterFromMerged(df, g, rg) ==
    IF rg # All THEN SelectSeq(df, LAMBDA r : Eq(r.Region, rg))
    ELSE IF g # All THEN SelectSeq(df, LAMBDA r : Eq(r.IncomeGroup, g)) ELSE df

\* The two filters, one after the other, on a copy of the merged table.
SidebarFilter(df, g, rg) == FilterRegion(FilterIncomeGroup(df, g), rg)

----------------------------------------------------------------------------
(* 4.3 Ranking (lines 89-94) *)

NonNull(df, y) == SelectSeq(df, LAMBDA r : r.years[y] # NaN)

IsNull(df, y) == SelectSeq(df, LAMBDA r : r.years[y] = NaN)

\* A stable sort of the rows by their value in column y: position k holds the
\* row that has k - 1 rows before it, a row of equal value keeping its place
\* behind the equal rows that come earlier in df.
StableSort(df, y, desc) ==
    LET Before(i, j) ==
            \/ IF desc THEN df[i].years[y] > df[j].years[y]
                       ELSE df[i].years[y] < df[j].years[y]
            \/ df[i].years[y] = df[j].years[y] /\ i < j
        Pos(j) == Cardinality({i \in DOMAIN df : Before(i, j)}) + 1
    IN [k \in DOMAIN df |-> df[CHOOSE j \in DOMAIN df : Pos(j) = k]]

\* DataFrame.nlargest(n, y), keep='first': the rows with a value, largest
\* first, then the rows without one, cut to n rows.
nlargest(df, n, y) == Take(StableSort(NonNull(df, y), y, TRUE) \o IsNull(df, y), n)

\* nsmallest sorting the wrong way round.
nsmallestDescending(df, n, y) ==
    Take(StableSort(NonNull(df, y), y, TRUE) \o IsNull(df, y), n)

\* DataFrame.nsmallest(n, y), keep='first'.
nsmallest(df, n, y) == Take(StableSort(NonNull(df, y), y, FALSE) \o IsNull(df, y), n)

\* [['Country Name', year]].reset_index(drop=True), then insert(0, "Rank", 1..len).
Ranked(sel, y) ==
    [k \in DOMAIN sel |-> [Rank |-> k, CountryName |-> sel[k].CountryName,
                           value |-> sel[k].years[y]]]

----------------------------------------------------------------------------
(* 4.4 Income-group distribution (lines 113-114) *)

\* GroupCount with size() in the place of count(): rows without a value count.
GroupSize(df, y) ==
    LET keys == SortedUnique({df[i].IncomeGroup : i \in DOMAIN df})
    IN [k \in DOMAIN keys |->
          [IncomeGroup |-> keys[k],
           NumberOfCountries |->
              Cardinality({i \in DOMAIN df : df[i].IncomeGroup = keys[k]})]]

\* groupby('IncomeGroup')[year].count().reset_index(): one row per income group
\* that is the key of some row (rows with a missing key belong to no group), in
\* ascending key order, with the number of its rows that have a value.
GroupCount(df, y) ==
    LET keys == SortedUnique({df[i].IncomeGroup : i \in DOMAIN df})
    IN [k \in DOMAIN keys |->
          [IncomeGroup |-> keys[k],
           NumberOfCountries |->
              Cardinality({i \in DOMAIN df :
                             df[i].IncomeGroup = keys[k] /\ df[i].years[y] # NaN})]]

----------------------------------------------------------------------------
(* 4.5 Two-country comparison (lines 135-163) *)

\* column.dropna().unique(): the distinct values in order of first appearance.
RECURSIVE Unique(_)
Unique(s) ==
    IF s = <<>> THEN <<>>
    ELSE LET rest == Unique(SubSeq(s, 1, Len(s) - 1))
             x == s[Len(s)]
         IN IF x = NA \/ x \in Range(rest) THEN rest ELSE Append(rest, x)

filtered_country_list(df) == Unique([i \in DOMAIN df |-> df[i].CountryName])

\* st.selectbox(label, options): the values it can return.
SelectBox(options) == IF options = <<>> THEN {None} ELSE Range(options)

\* CountryData comparing the country code column with the selected name.
CountryDataByCode(df, country) ==
    SelectSeq(df, LAMBDA r : Eq(r.CountryCode, country))

\* merged_df[merged_df['Country Name'] == country]
CountryData(df, country) == SelectSeq(df, LAMBDA r : Eq(r.CountryName, country))

\* SeriesOf reading the last matching row (iloc[-1]).
SeriesOfLast(data) ==
    [i \in DOMAIN year_columns |-> data[Len(data)].years[year_columns[i]]]

\* data.iloc[0][year_columns].values
SeriesOf(data) == [i \in DOMAIN year_columns |-> data[1].years[year_columns[i]]]

\* A dict with key k set to v: a key that is already there is overwritten.
DictSet(d, k, v) == [x \in (DOMAIN d) \cup {k} |-> IF x = k THEN v ELSE d[x]]

\* pd.DataFrame({"Year": year_columns, country_1: ..., country_2: ...})
ComparisonFrame(c1, s1, c2, s2) ==
    DictSet(DictSet(DictSet(<<>>, "Year", year_columns), c1, s1), c2, s2)

----------------------------------------------------------------------------
(* The input files *)

\* One row of the country table as read_csv delivers it.
PrimaryRow(name, code, series) ==
    [CountryName |-> name, CountryCode |-> code, years |-> series]

\* One row of the metadata table; it has more columns than the join keeps.
MetaRow(code, group, region) ==
    [CountryCode |-> code, IncomeGroup |-> group, Region |-> region,
     SpecialNotes |-> NA]

\* Country tables that differ in their country codes only.
JoinPrimaries ==
    Tables({PrimaryRow(IF c = "X" THEN "A" ELSE "B", c, HalfSeries(1, 2)) :
              c \in {"X", "Y"}}, 1, MaxRows)

\* Metadata tables: a code may be listed twice or not at all, and a listed
\* country may lack its income group and region (as the aggregates do).
JoinMetas ==
    Tables({MetaRow(c, gr[1], gr[2]) :
              c \in {"X", "Y"},
              gr \in {<<"High", "East">>, <<"Low", "East">>,
                      <<"Low", "South">>, <<NA, NA>>}}, 0, MaxMeta)

\* Country tables that differ in names, codes and year values.
ViewPrimaries ==
    Tables({PrimaryRow(n, c, HalfSeries(a, b)) :
              n \in Names \cup {NA}, c \in {"X", "Y"},
              a \in {Junk, 1}, b \in {NaN, 2}}, 0, MaxRows)

ViewMetas == {<<MetaRow("X", "High", "East"), MetaRow("Y", "Low", "East")>>}

\* Value columns of n rows: row i holds (a * i + b) % m + 1, which gives
\* all-equal columns (m = 1), columns with ties and columns of pairwise
\* distinct values (m = 11 or 13, a > 0); row i has no value when hole = i.
\* The rows beyond the tenth carry a code the metadata does not list.
RankColumn(n, m, a, b, hole) ==
    [i \in 1..n |-> IF i = hole THEN NaN ELSE ((a * i + b) % m) + 1]

RankPrimaries ==
    {[i \in 1..n |->
        PrimaryRow(IF i % 2 = 0 THEN "A" ELSE "B",
                   IF i > 2 * TopN THEN "Y" ELSE "X",
                   LET col == RankColumn(n, m, a, b, hole)
                   IN HalfSeries(col[i], col[n + 1 - i]))] :
       n \in (2 * TopN)..MaxRankRows, m \in {1, 2, 3, 11, 13},
       a \in 0..12, b \in {0, 1}, hole \in {0, 4}}

RankMetas == {<<MetaRow("X", "High", "East")>>}

----------------------------------------------------------------------------
(* The script *)

Blank ==
    /\ merged_df = <<>>
    /\ selected_income_group = All
    /\ selected_region = All
    /\ selected_year = LastYear
    /\ filtered_df_sidebar = <<>>
    /\ top_5_sel = <<>>
    /\ bottom_5_sel = <<>>
    /\ top_5_countries = <<>>
    /\ bottom_5_countries = <<>>
    /\ income_group_distribution = <<>>
    /\ country_1 = None
    /\ country_2 = None
    /\ series_1 = <<>>
    /\ series_2 = <<>>
    /\ comparison_df = <<>>
    /\ outcome = "none"
    /\ pc = "load"

InitWith(primaries, metas) ==
    /\ api_ny \in primaries
    /\ metadata \in metas
    /\ Blank

Init == InitWith(JoinPrimaries, JoinMetas)

InitViews == InitWith(ViewPrimaries, ViewMetas)

InitRank == InitWith(RankPrimaries, RankMetas)

\* Lines 17-33: the metadata is cut to three columns, joined onto the country
\* table, and every year column is made numeric.
JoinNormalize ==
    /\ pc = "load"
    /\ merged_df' = CoerceYears(MergeLeft(api_ny, ProjectMetadata(metadata)))
    /\ pc' = "sidebar"
    /\ UNCHANGED <<api_ny, metadata, selected_income_group, selected_region,
                   selected_year, filtered_df_sidebar, top_5_sel, bottom_5_sel,
                   top_5_countries, bottom_5_countries, income_group_distribution,
                   country_1, country_2, series_1, series_2, comparison_df,
                   outcome>>

\* Lines 42-59: the three sidebar widgets return the user's choice among what
\* they offer, and the merged table is filtered by the two dropdowns.
Sidebar ==
    /\ pc = "sidebar"
    /\ \E g \in Range(income_groups(merged_df)),
          rg \in Range(regions(merged_df)),
          y \in SliderYears :
          /\ selected_income_group' = g
          /\ selected_region' = rg
          /\ selected_year' = y
          /\ filtered_df_sidebar' = SidebarFilter(merged_df, g, rg)
    /\ pc' = "ranking"
    /\ UNCHANGED <<api_ny, metadata, merged_df, top_5_sel, bottom_5_sel,
                   top_5_countries, bottom_5_countries, income_group_distribution,
                   country_1, country_2, series_1, series_2, comparison_df,
                   outcome>>

\* Lines 89-94: the top-5 and bottom-5 tables of the selected year.
Ranking ==
    /\ pc = "ranking"
    /\ top_5_sel' = nlargest(filtered_df_sidebar, TopN, selected_year)
    /\ bottom_5_sel' = nsmallest(filtered_df_sidebar, TopN, selected_year)
    /\ top_5_countries' = Ranked(top_5_sel', selected_year)
    /\ bottom_5_countries' = Ranked(bottom_5_sel', selected_year)
    /\ pc' = "distribution"
    /\ UNCHANGED <<api_ny, metadata, merged_df, selected_income_group,
                   selected_region, selected_year, filtered_df_sidebar,
                   income_group_distribution, country_1, country_2, series_1,
                   series_2, comparison_df, outcome>>

\* Lines 113-114: the number of countries per income group.
Distribution ==
    /\ pc = "distribution"
    /\ income_group_distribution' = GroupCount(filtered_df_sidebar, selected_year)
    /\ pc' = "comparison"
    /\ UNCHANGED <<api_ny, metadata, merged_df, selected_income_group,
                   selected_region, selected_year, filtered_df_sidebar, top_5_sel,
                   bottom_5_sel, top_5_countries, bottom_5_countries, country_1,
                   country_2, series_1, series_2, comparison_df, outcome>>

\* Lines 135-163: the two country dropdowns offer the names of the filtered
\* table; each name is looked up in the merged table; the chart is built when
\* both lookups find a row, and the warning is shown otherwise.
Comparison ==
    /\ pc = "comparison"
    /\ \E c1 \in SelectBox(filtered_country_list(filtered_df_sidebar)),
          c2 \in SelectBox(filtered_country_list(filtered_df_sidebar)) :
          LET country_1_data == CountryData(merged_df, c1)
              country_2_data == CountryData(merged_df, c2)
          IN /\ country_1' = c1
             /\ country_2' = c2
             /\ IF country_1_data # <<>> /\ country_2_data # <<>>
                THEN /\ series_1' = SeriesOf(country_1_data)
                     /\ series_2' = SeriesOf(country_2_data)
                     /\ comparison_df' =
                           ComparisonFrame(c1, series_1', c2, series_2')
                     /\ outcome' = "chart"
                ELSE /\ series_1' = <<>>
                     /\ series_2' = <<>>
                     /\ comparison_df' = <<>>
                     /\ outcome' = "warning"
    /\ pc' = "done"
    /\ UNCHANGED <<api_ny, metadata, merged_df, selected_income_group,
                   selected_region, selected_year, filtered_df_sidebar, top_5_sel,
                   bottom_5_sel, top_5_countries, bottom_5_countries,
                   income_group_distribution>>

\* A widget interaction: the script runs again from the top, on the same files.
Rerun ==
    /\ pc = "done"
    /\ merged_df' = <<>>
    /\ selected_income_group' = All
    /\ selected_region' = All
    /\ selected_year' = LastYear
    /\ filtered_df_sidebar' = <<>>
    /\ top_5_sel' = <<>>
    /\ bottom_5_sel' = <<>>
    /\ top_5_countries' = <<>>
    /\ bottom_5_countries' = <<>>
    /\ income_group_distribution' = <<>>
    /\ country_1' = None
    /\ country_2' = None
    /\ series_1' = <<>>
    /\ series_2' = <<>>
    /\ comparison_df' = <<>>
    /\ outcome' = "none"
    /\ pc' = "load"
    /\ UNCHANGED <<api_ny, metadata>>

Next == JoinNormalize \/ Sidebar \/ Ranking \/ Distribution \/ Comparison \/ Rerun

Spec == Init /\ [][Next]_vars

SpecViews == InitViews /\ [][Next]_vars

SpecRank == InitRank /\ [][Next]_vars

----------------------------------------------------------------------------
(* Properties of the join (4.1) *)

AfterJoin == pc # "load"

AfterSidebar == pc \in {"ranking", "distribution", "comparison", "done"}

MetaMatches(code) == {j \in DOMAIN metadata : metadata[j].CountryCode = code}

Min(a, b) == IF a < b THEN a ELSE b

RECURSIVE SumTo(_, _)
SumTo(f, n) == IF n = 0 THEN 0 ELSE f[n] + SumTo(f, n - 1)

\* C1 as stated: every merged row carries the income group and region of
\* every metadata row that has its country code, and carries two missing
\* values when no metadata row has its code.
C1_JoinValuesEveryMatch ==
    AfterJoin =>
        \A i \in DOMAIN merged_df :
            LET r == merged_df[i]
            IN /\ \A j \in MetaMatches(r.CountryCode) :
                     /\ r.IncomeGroup = metadata[j].IncomeGroup
                     /\ r.Region = metadata[j].Region
               /\ MetaMatches(r.CountryCode) = {} =>
                     r.IncomeGroup = NA /\ r.Region = NA

\* C1, amended: a merged row whose country code is listed once in the
\* metadata carries that row's income group and region; one whose code is
\* listed several times carries the pair of one of the rows listing it, and
\* each of those rows is carried by some merged row of that code; one whose
\* code is not listed carries two missing values.
C1_JoinValues ==
    AfterJoin =>
        \A i \in DOMAIN merged_df :
            LET r == merged_df[i]
                hits == MetaMatches(r.CountryCode)
            IN /\ hits # {} =>
                     \E j \in hits : /\ r.IncomeGroup = metadata[j].IncomeGroup
                                     /\ r.Region = metadata[j].Region
               /\ \A j \in hits :
                     \E k \in DOMAIN merged_df :
                        /\ merged_df[k].CountryCode = r.CountryCode
                        /\ merged_df[k].IncomeGroup = metadata[j].IncomeGroup
                        /\ merged_df[k].Region = metadata[j].Region
               /\ hits = {} => r.IncomeGroup = NA /\ r.Region = NA

\* A join in which one country matched a metadata row with both values and
\* another country matched none.
C1_Witness ==
    /\ AfterJoin
    /\ \E i, k \in DOMAIN merged_df :
          /\ Cardinality(MetaMatches(merged_df[i].CountryCode)) = 1
          /\ merged_df[i].IncomeGroup # NA
          /\ merged_df[i].Region # NA
          /\ MetaMatches(merged_df[k].CountryCode) = {}
          /\ merged_df[k].IncomeGroup = NA

\* C2 as stated: the merged table has as many rows as the country table,
\* whatever the metadata table.
C2_RowCountEqual == AfterJoin => Len(merged_df) = Len(api_ny)

\* C2, amended: the join drops no row: the merged table has one row per
\* country row whose code the metadata lists at most once, and one row per
\* listing for a code listed several times; so it has exactly as many rows as
\* the country table when no country's code is listed more than once.
C2_RowCount ==
    AfterJoin =>
        LET n(i) == Cardinality(MetaMatches(api_ny[i].CountryCode))
            rows == [i \in DOMAIN api_ny |-> IF n(i) = 0 THEN 1 ELSE n(i)]
        IN /\ Len(merged_df) = SumTo(rows, Len(api_ny))
           /\ Len(merged_df) >= Len(api_ny)
           /\ (\A i \in DOMAIN api_ny : n(i) <= 1) => Len(merged_df) = Len(api_ny)
           /\ \A i \in DOMAIN api_ny :
                 \E k \in DOMAIN merged_df :
                    merged_df[k].CountryCode = api_ny[i].CountryCode

\* A join of two countries, one listed once in the metadata and one not at all.
C2_Witness ==
    /\ AfterJoin
    /\ Len(api_ny) = 2
    /\ Len(merged_df) = 2
    /\ \E i, k \in DOMAIN api_ny :
          /\ Cardinality(MetaMatches(api_ny[i].CountryCode)) = 1
          /\ MetaMatches(api_ny[k].CountryCode) = {}

----------------------------------------------------------------------------
(* Properties of the sidebar filter (4.2) *)

\* The rows the two selections keep.
Keeps(r) ==
    /\ selected_income_group # All => r.IncomeGroup = selected_income_group
    /\ selected_region # All => r.Region = selected_region

\* C3: with both selections "All" the filtered table is the merged table; a
\* selected income group G leaves only rows of group G and a selected region R
\* only rows of region R; the filtered table holds exactly the merged rows
\* that satisfy every selection that is not "All", in the merged table's order.
C3_FilterConjunction ==
    AfterSidebar =>
        /\ (selected_income_group = All /\ selected_region = All)
              => filtered_df_sidebar = merged_df
        /\ selected_income_group # All =>
              \A i \in DOMAIN filtered_df_sidebar :
                 filtered_df_sidebar[i].IncomeGroup = selected_income_group
        /\ selected_region # All =>
              \A i \in DOMAIN filtered_df_sidebar :
                 filtered_df_sidebar[i].Region = selected_region
        /\ Range(filtered_df_sidebar) = {r \in Range(merged_df) : Keeps(r)}
        /\ \A i, j \in DOMAIN filtered_df_sidebar :
              i < j => filtered_df_sidebar[i].idx < filtered_df_sidebar[j].idx

\* Both dropdowns set, a row kept, and a row of the selected income group
\* dropped because of its region alone.
C3_Witness ==
    /\ AfterSidebar
    /\ selected_income_group # All
    /\ selected_region # All
    /\ filtered_df_sidebar # <<>>
    /\ \E r \in Range(merged_df) :
          r.IncomeGroup = selected_income_group /\ r.Region # selected_region

\* C4 as stated: the filtered table is a strict subset of the merged table,
\* and filtering it again changes nothing.
C4_StrictSubset ==
    AfterSidebar =>
        /\ Range(filtered_df_sidebar) \subseteq Range(merged_df)
        /\ Range(filtered_df_sidebar) # Range(merged_df)
        /\ SidebarFilter(filtered_df_sidebar, selected_income_group,
                         selected_region) = filtered_df_sidebar

\* C4, amended: the filtered table is a subset of the merged table, equal to
\* it when every row satisfies the selections (as with "All" and "All"), and
\* filtering it again with the same selections changes nothing.
C4_SubsetIdempotent ==
    AfterSidebar =>
        /\ Range(filtered_df_sidebar) \subseteq Range(merged_df)
        /\ (\A r \in Range(merged_df) : Keeps(r))
              => filtered_df_sidebar = merged_df
        /\ (selected_income_group = All /\ selected_region = All)
              => filtered_df_sidebar = merged_df
        /\ SidebarFilter(filtered_df_sidebar, selected_income_group,
                         selected_region) = filtered_df_sidebar

\* A selection that drops some rows and keeps others.
C4_Witness ==
    /\ AfterSidebar
    /\ selected_income_group # All
    /\ filtered_df_sidebar # <<>>
    /\ Len(filtered_df_sidebar) < Len(merged_df)

----------------------------------------------------------------------------
(* Properties of the ranking tables (4.3) *)

AfterRanking == pc \in {"distribution", "comparison", "done"}

\* The rows of the filtered table that have a value in the selected year.
Valued == NonNull(filtered_df_sidebar, selected_year)

Value(r) == r.years[selected_year]

TopIdx == {top_5_sel[i].idx : i \in DOMAIN top_5_sel}

BottomIdx == {bottom_5_sel[i].idx : i \in DOMAIN bottom_5_sel}

\* C5 as stated: each of the two tables has min(5, k) rows, k being the
\* number of filtered rows with a value in the selected year; no row without
\* a value is in either table; the Rank column counts 1, 2, ... down the table.
C5_RankedRows ==
    AfterRanking =>
        /\ Len(top_5_countries) = Min(TopN, Len(Valued))
        /\ Len(bottom_5_countries) = Min(TopN, Len(Valued))
        /\ \A i \in DOMAIN top_5_countries :
              top_5_countries[i].value # NaN /\ top_5_countries[i].Rank = i
        /\ \A i \in DOMAIN bottom_5_countries :
              bottom_5_countries[i].value # NaN /\ bottom_5_countries[i].Rank = i

\* Every valued row that is in neither table lies between the two tables.
Bounded ==
    \A r \in Range(Valued) :
        r.idx \notin TopIdx \cup BottomIdx =>
            /\ \A i \in DOMAIN top_5_sel : Value(r) <= Value(top_5_sel[i])
            /\ \A i \in DOMAIN bottom_5_sel : Value(bottom_5_sel[i]) <= Value(r)

\* C6 as stated: with ten or more valued rows, equal values included, no row
\* is in both tables and every other valued row lies between the two tables.
C6_DisjointWithTies ==
    (AfterRanking /\ Len(Valued) >= 2 * TopN) =>
        /\ TopIdx \cap BottomIdx = {}
        /\ Bounded

\* C6, amended: with ten or more valued rows every other valued row lies
\* between the two tables; no row is in both tables when the values are
\* pairwise distinct, and in general exactly when the smallest value of the
\* top table is greater than the largest value of the bottom table (equal
\* values put the first of the tied rows into both tables).
C6_DisjointUnlessTied ==
    (AfterRanking /\ Len(Valued) >= 2 * TopN) =>
        /\ Bounded
        /\ (\A i, j \in DOMAIN Valued : i # j => Value(Valued[i]) # Value(Valued[j]))
              => TopIdx \cap BottomIdx = {}
        /\ TopIdx \cap BottomIdx = {}
              <=> \A i \in DOMAIN top_5_sel, j \in DOMAIN bottom_5_sel :
                     Value(top_5_sel[i]) > Value(bottom_5_sel[j])
        /\ Len(top_5_sel) = TopN
        /\ Len(bottom_5_sel) = TopN

\* Ten valued rows of pairwise distinct values, ranked out of a filtered table
\* that the income-group selection cut out of a larger merged table.
C6_Witness ==
    /\ AfterRanking
    /\ Len(Valued) = 2 * TopN
    /\ Len(filtered_df_sidebar) < Len(merged_df)
    /\ \A i, j \in DOMAIN Valued : i # j => Value(Valued[i]) # Value(Valued[j])
    /\ TopIdx \cap BottomIdx = {}

----------------------------------------------------------------------------
(* Properties of the income-group distribution (4.4) *)

AfterDistribution == pc \in {"comparison", "done"}

\* The income groups that are the key of some row of the filtered table.
PresentGroups ==
    {filtered_df_sidebar[i].IncomeGroup : i \in DOMAIN filtered_df_sidebar} \ {NA}

\* The number of rows of group g with a value in the selected year.
Qualifying(g) ==
    Cardinality({i \in DOMAIN filtered_df_sidebar :
                   /\ filtered_df_sidebar[i].IncomeGroup = g
                   /\ Value(filtered_df_sidebar[i]) # NaN})

Listed == {income_group_distribution[k].IncomeGroup :
             k \in DOMAIN income_group_distribution}

CountSum ==
    SumTo([k \in DOMAIN income_group_distribution |->
             income_group_distribution[k].NumberOfCountries],
          Len(income_group_distribution))

\* C7 as stated: each listed group has the number of its rows with a value;
\* the counts add up to at most the number of filtered rows; only groups of
\* the filtered table are listed; a group none of whose rows has a value is
\* left out, so no group is listed with 0.
C7_ZeroGroupsOmitted ==
    AfterDistribution =>
        /\ \A k \in DOMAIN income_group_distribution :
              income_group_distribution[k].NumberOfCountries =
                 Qualifying(income_group_distribution[k].IncomeGroup)
        /\ CountSum <= Len(filtered_df_sidebar)
        /\ Listed \subseteq PresentGroups
        /\ Listed = {g \in PresentGroups : Qualifying(g) > 0}

\* C7, amended: the distribution lists every income group that is the key of
\* some filtered row, once, with the number of its rows that have a value in
\* the selected year, which is 0 for a group none of whose rows has one; the
\* counts add up to at most the number of filtered rows; no other group is
\* listed.
C7_Distribution ==
    AfterDistribution =>
        /\ \A k \in DOMAIN income_group_distribution :
              income_group_distribution[k].NumberOfCountries =
                 Qualifying(income_group_distribution[k].IncomeGroup)
        /\ CountSum <= Len(filtered_df_sidebar)
        /\ Listed = PresentGroups
        /\ Cardinality(Listed) = Len(income_group_distribution)

\* A distribution that lists one group with 0 and another with a country.
C7_Witness ==
    /\ AfterDistribution
    /\ \E k \in DOMAIN income_group_distribution :
          income_group_distribution[k].NumberOfCountries = 0
    /\ \E k \in DOMAIN income_group_distribution :
          income_group_distribution[k].NumberOfCountries > 0

----------------------------------------------------------------------------
(* Properties of the comparison (4.5) *)

AfterComparison == pc = "done"

Found(country) == CountryData(merged_df, country) # <<>>

\* The first row of the merged table that carries the name.
FirstNamed(country) ==
    CHOOSE r \in Range(merged_df) :
        /\ r.CountryName = country
        /\ \A q \in Range(merged_df) : q.CountryName = country => r.idx <= q.idx

\* The year values of a row, 1960 first.
YearValues(r) == [i \in 1..(LastYear - FirstYear + 1) |-> r.years[FirstYear + i - 1]]

\* The value columns of the comparison frame.
ValueColumns == (DOMAIN comparison_df) \ {"Year"}

\* C8 as stated: the same country selected twice gives the chart, and the
\* comparison frame holds two series, one per selection, equal to each other.
C8_SameCountryTwoSeries ==
    (AfterComparison /\ country_1 = country_2 /\ Found(country_1)) =>
        /\ outcome = "chart"
        /\ Cardinality(ValueColumns) = 2
        /\ \A c \in ValueColumns : comparison_df[c] = YearValues(FirstNamed(country_1))

\* C9: each name is looked up in the merged table; when either finds no row
\* the warning is the outcome and no series is built; when both find one, each
\* series holds the 64 year values of the first row that carries the name.
C9_Lookup ==
    AfterComparison =>
        IF Found(country_1) /\ Found(country_2)
        THEN /\ outcome = "chart"
             /\ Len(series_1) = LastYear - FirstYear + 1
             /\ Len(series_2) = LastYear - FirstYear + 1
             /\ series_1 = YearValues(FirstNamed(country_1))
             /\ series_2 = YearValues(FirstNamed(country_2))
        ELSE /\ outcome = "warning"
             /\ series_1 = <<>>
             /\ series_2 = <<>>
             /\ comparison_df = <<>>

\* A chart for a name that two merged rows with different year values carry,
\* the first of which the sidebar selection has filtered out.
C9_Witness ==
    /\ AfterComparison
    /\ outcome = "chart"
    /\ \E r, q \in Range(merged_df) :
          /\ r.CountryName = country_1
          /\ q.CountryName = country_1
          /\ r.idx < q.idx
          /\ r.years # q.years
          /\ r \notin Range(filtered_df_sidebar)
          /\ q \in Range(filtered_df_sidebar)

\* C10 as stated: whatever the sidebar selections, both names handed to the
\* lookup are found in the merged table and the warning is never the outcome.
C10_NeverWarning ==
    AfterComparison => Found(country_1) /\ Found(country_2) /\ outcome # "warning"

\* C10, amended: when the filtered table holds a country name, both names
\* handed to the lookup are names of filtered rows, are found in the merged
\* table, and the chart is the outcome; when it holds none (as when no row has
\* both the selected income group and the selected region) the dropdowns
\* return no selection and the warning is the outcome.
C10_WarningIffNoName ==
    AfterComparison =>
        LET names == filtered_country_list(filtered_df_sidebar)
        IN IF names # <<>>
           THEN /\ country_1 \in Range(names)
                /\ country_2 \in Range(names)
                /\ Found(country_1)
                /\ Found(country_2)
                /\ outcome = "chart"
           ELSE /\ country_1 = None
                /\ country_2 = None
                /\ outcome = "warning"

\* A comparison of two different countries out of a filtered table that is a
\* part of the merged table.
C10_Witness ==
    /\ AfterComparison
    /\ selected_income_group # All
    /\ country_1 # country_2
    /\ outcome = "chart"

====
